---- MODULE Spec2Model ----
(***************************************************************************)
(* Model of src/inventory.py: the module-level mapping stock_data, the     *)
(* operations add_item, remove_item, get_qty, check_low_items, save_data   *)
(* and load_data, and the JSON text save_data writes and load_data reads.  *)
(*                                                                         *)
(* Python values are tagged records, so that the isinstance tests and the  *)
(* truthiness tests of the code are decided as Python decides them:        *)
(*   an item argument is [type, s]: type "str" with the text s, or type    *)
(*   "int" with s the decimal text of the number;                          *)
(*   a qty argument is [type, n, s]: type "int" or "bool" with the number  *)
(*   n (True is 1, False is 0), or type "str" with the text s.             *)
(* A dict is a sequence of entries [k, v] in insertion order, keys unique. *)
(***************************************************************************)
EXTENDS Integers, Sequences, FiniteSets

VARIABLES
    stock_data,   \* the module-level dict (inventory.py:12)
    fs,           \* the file system: path -> content of the file
    call,         \* the most recent call: function name and arguments
    ret,          \* what that call returned, or the exception it raised
    logs,         \* the caller's log list after the most recent call
    printed,      \* the message that call printed, "" when it printed none
    rt            \* progress of a save / fresh process / load sequence

vars == <<stock_data, fs, call, ret, logs, printed, rt>>

----------------------------------------------------------------------------
(* Bounds of the model *)

MaxQty == 5        \* quantities an add or remove may produce are capped here
MaxSaved == 2      \* quantities built by add_item before a save

----------------------------------------------------------------------------
(* Argument values *)

Str(s) == [type |-> "str", s |-> s]
IntItem(s) == [type |-> "int", s |-> s]

\* item arguments: two names, the empty text, and the number 123 of main()
Items == {Str("apple"), Str("pear"), Str(""), IntItem("123")}

IntQty(n) == [type |-> "int", n |-> n, s |-> ""]
BoolQty(n) == [type |-> "bool", n |-> n, s |-> ""]
StrQty(s) == [type |-> "str", n |-> 0, s |-> s]

\* qty arguments: integers of both signs, True, and the text "ten" of main()
Qtys == {IntQty(n) : n \in -1..MaxQty} \cup {BoolQty(1), StrQty("ten")}

\* isinstance(x, str), isinstance(x, int): bool is a subclass of int
IsInstanceStr(x) == x.type = "str"
IsInstanceInt(x) == x.type \in {"int", "bool"}

\* Python truthiness of an item argument: "" and 0 are falsy
Truthy(item) == IF item.type = "str" THEN item.s # "" ELSE item.s # "0"

----------------------------------------------------------------------------
(* dict operations on a sequence of entries [k, v] *)

Keys(d) == {d[i].k : i \in DOMAIN d}

\* `k in d`
Contains(d, k) == \E i \in DOMAIN d : d[i].k = k

\* d.get(k, default)
DictGet(d, k, default) ==
    IF Contains(d, k) THEN d[CHOOSE i \in DOMAIN d : d[i].k = k].v
    ELSE default

\* d[k] = v: an existing key keeps its position, a new key goes last
DictSet(d, k, v) ==
    IF Contains(d, k)
    THEN [i \in DOMAIN d |-> IF d[i].k = k THEN [k |-> k, v |-> v] ELSE d[i]]
    ELSE Append(d, [k |-> k, v |-> v])

\* del d[k]
DictDel(d, k) == SelectSeq(d, LAMBDA e : e.k # k)

\* d.update(other): every entry of other is assigned, in other's order
RECURSIVE DictUpdate(_, _)
DictUpdate(d, other) ==
    IF other = <<>> THEN d
    ELSE DictUpdate(DictSet(d, Head(other).k, Head(other).v), Tail(other))

----------------------------------------------------------------------------
(* Return values *)

NoValue == [kind |-> "none", b |-> FALSE, n |-> 0, l |-> <<>>, exc |-> ""]
RetBool(b) == [NoValue EXCEPT !.kind = "bool", !.b = b]
RetInt(n) == [NoValue EXCEPT !.kind = "int", !.n = n]
RetList(l) == [NoValue EXCEPT !.kind = "list", !.l = l]
RetDict == [NoValue EXCEPT !.kind = "dict"]       \* the stock_data object
Raised(exc) == [NoValue EXCEPT !.kind = "raise", !.exc = exc]

----------------------------------------------------------------------------
(* add_item *)

\* the list passed as logs: not given (None), or a list with its content
NoSink == [given |-> FALSE, list |-> <<>>]
Sink(l) == [given |-> TRUE, list |-> l]

\* the record add_item appends: "<now>: Added <qty> of <item>"; the time of
\* day is left out, the two interpolated arguments are kept
LogEntry(item, qty) == [qty |-> qty, item |-> item]

Sinks == {NoSink, Sink(<<>>), Sink(<<LogEntry(Str("pear"), IntQty(1))>>)}

\* `not item or not isinstance(item, str)`
ItemRejected(item) == ~Truthy(item) \/ ~IsInstanceStr(item)

\* `not isinstance(qty, int) or qty < 0`; `or` does not evaluate qty < 0 for
\* a qty that is no int
QtyRejectedNoSign(qty) == ~IsInstanceInt(qty)
QtyRejected(qty) == IF ~IsInstanceInt(qty) THEN TRUE ELSE qty.n < 0

\* `stock_data[item] = stock_data.get(item, 0) + qty`
AddStockOverwrite(d, item, qty) == DictSet(d, item, qty.n)
AddStock(d, item, qty) == DictSet(d, item, DictGet(d, item, 0) + qty.n)

\* the whole of add_item: the mapping, the caller's list and the return value
AddOutcome(d, item, qty, sink) ==
    IF ItemRejected(item)
    THEN [stock |-> d, ret |-> RetBool(FALSE), logs |-> sink.list,
          printed |-> "Error: Invalid item name"]
    ELSE IF QtyRejected(qty)
    THEN [stock |-> d, ret |-> RetBool(FALSE), logs |-> sink.list,
          printed |-> "Error: Quantity must be a non-negative integer"]
    ELSE [stock |-> AddStock(d, item, qty),
          ret |-> RetBool(TRUE),
          printed |-> "",
          logs |-> IF sink.given
                   THEN Append(sink.list, LogEntry(item, qty))
                   ELSE <<>>]

----------------------------------------------------------------------------
(* remove_item *)

\* `if stock_data[item] <= 0: del stock_data[item]`
DropEmptyStrict(d, item) ==
    IF DictGet(d, item, 0) < 0 THEN DictDel(d, item) ELSE d
DropEmpty(d, item) ==
    IF DictGet(d, item, 0) <= 0 THEN DictDel(d, item) ELSE d

\* a remove_item without the membership test, reading with a default
RemoveOutcomeNoTest(d, item, qty) ==
    IF ~IsInstanceInt(qty)
    THEN [stock |-> d, ret |-> Raised("TypeError"), printed |-> ""]
    ELSE [stock |-> DropEmpty(DictSet(d, item, DictGet(d, item, 0) - qty.n),
                              item),
          ret |-> RetBool(TRUE), printed |-> ""]

\* a remove_item that validates the sign of qty as add_item does
RemoveOutcomeSigned(d, item, qty) ==
    IF ~Contains(d, item)
    THEN [stock |-> d, ret |-> RetBool(FALSE),
          printed |-> "Error: Item not found in inventory"]
    ELSE IF QtyRejected(qty)
    THEN [stock |-> d, ret |-> RetBool(FALSE), printed |-> ""]
    ELSE [stock |-> DropEmpty(DictSet(d, item, DictGet(d, item, 0) - qty.n),
                              item),
          ret |-> RetBool(TRUE), printed |-> ""]

\* the whole of remove_item.  The stored quantities are ints, so `-=` raises
\* TypeError for a qty that is no number, before anything is assigned; only
\* KeyError is caught, and the membership test leaves none to catch.
RemoveOutcome(d, item, qty) ==
    IF ~Contains(d, item)
    THEN [stock |-> d, ret |-> RetBool(FALSE),
          printed |-> "Error: Item not found in inventory"]
    ELSE IF ~IsInstanceInt(qty)
    THEN [stock |-> d, ret |-> Raised("TypeError"), printed |-> ""]
    ELSE [stock |-> DropEmpty(DictSet(d, item, DictGet(d, item, 0) - qty.n),
                              item),
          ret |-> RetBool(TRUE), printed |-> ""]

----------------------------------------------------------------------------
(* get_qty, check_low_items *)

GetQty(d, item) == DictGet(d, item, 0)

DefaultThreshold == 5

\* the threshold argument: <<>> when the call passes none, <<n>> otherwise
ThresholdOf(th) == IF th = <<>> THEN DefaultThreshold ELSE th[1]

\* the loop of check_low_items: the names, in the dict's order
RECURSIVE LowItemsInclusive(_, _)
LowItemsInclusive(d, threshold) ==
    IF d = <<>> THEN <<>>
    ELSE (IF Head(d).v <= threshold THEN <<Head(d).k>> ELSE <<>>)
         \o LowItemsInclusive(Tail(d), threshold)

RECURSIVE LowItemsLoop(_, _)
LowItemsLoop(d, threshold) ==
    IF d = <<>> THEN <<>>
    ELSE (IF Head(d).v < threshold THEN <<Head(d).k>> ELSE <<>>)
         \o LowItemsLoop(Tail(d), threshold)

LowItems(d, threshold) == LowItemsLoop(d, threshold)

----------------------------------------------------------------------------
(* The JSON text of a file: a sequence of characters and strings.          *)
(* A piece of text is [t, s]: punctuation, one digit, a quoted string with *)
(* its content s, or white space.                                          *)

Punct(s) == [t |-> "punct", s |-> s]
Quoted(s) == [t |-> "string", s |-> s]
White(s) == [t |-> "ws", s |-> s]
DigitChars == <<"0", "1", "2", "3", "4", "5", "6", "7", "8", "9">>
Digit(d) == [t |-> "digit", s |-> DigitChars[d + 1]]
DigitVal(c) == CHOOSE d \in 0..9 : DigitChars[d + 1] = c.s

\* the decimal text of an int, as json.dump writes it
RECURSIVE NatText(_)
NatText(n) ==
    IF n < 10 THEN <<Digit(n)>>
    ELSE Append(NatText(n \div 10), Digit(n % 10))

IntText(n) == IF n < 0 THEN <<Punct("-")>> \o NatText(-n) ELSE NatText(n)

\* one member of the object, on its own line: `  "key": value`.  A key that
\* is no str is written as the text str(key).
MemberText(e) ==
    <<White("\n  "), Quoted(e.k.s), Punct(":"), White(" ")>> \o IntText(e.v)

\* members written one after the other with no "," between them
RECURSIVE MembersTextNoComma(_)
MembersTextNoComma(d) ==
    IF Len(d) = 1 THEN MemberText(d[1])
    ELSE MemberText(Head(d)) \o MembersTextNoComma(Tail(d))

RECURSIVE MembersText(_)
MembersText(d) ==
    IF Len(d) = 1 THEN MemberText(d[1])
    ELSE MemberText(Head(d)) \o <<Punct(",")>> \o MembersText(Tail(d))

\* json.dump(stock_data, f, indent=2)
JsonDump(d) ==
    IF d = <<>> THEN <<Punct("{"), Punct("}")>>
    ELSE <<Punct("{")>> \o MembersText(d) \o <<White("\n"), Punct("}")>>

(* json.load: the scanner, then the object parser.  A token is [t, s, n]:  *)
(* punctuation, a string, a number with its value n, or "bad".             *)

Token(t, s, n) == [t |-> t, s |-> s, n |-> n]

\* the digits from position i on: their value and the position after them
RECURSIVE ScanDigits(_, _, _)
ScanDigits(text, i, acc) ==
    IF i <= Len(text) /\ text[i].t = "digit"
    THEN ScanDigits(text, i + 1, acc * 10 + DigitVal(text[i]))
    ELSE [n |-> acc, next |-> i]

\* white space is skipped; a number is -?(0|[1-9][0-9]*); a "-" with no digit
\* after it is no token
RECURSIVE Scan(_, _)
Scan(text, i) ==
    IF i > Len(text) THEN <<>>
    ELSE LET c == text[i]
             minus == c.t = "punct" /\ c.s = "-"
             j == IF minus THEN i + 1 ELSE i
             sign == IF minus THEN -1 ELSE 1
         IN  IF c.t = "ws" THEN Scan(text, i + 1)
             ELSE IF c.t = "digit" \/ minus
             THEN IF j > Len(text) \/ text[j].t # "digit"
                  THEN <<Token("bad", "", 0)>>
                  ELSE IF text[j].s = "0"
                  THEN <<Token("number", "", 0)>> \o Scan(text, j + 1)
                  ELSE LET r == ScanDigits(text, j, 0)
                       IN  <<Token("number", "", sign * r.n)>>
                           \o Scan(text, r.next)
             ELSE <<Token(c.t, c.s, 0)>> \o Scan(text, i + 1)

IsPunct(tok, s) == tok.t = "punct" /\ tok.s = s

DecodeError == [ok |-> FALSE, kind |-> "", obj |-> <<>>, n |-> 0]
Decoded(kind, obj, n) == [ok |-> TRUE, kind |-> kind, obj |-> obj, n |-> n]

\* the members from token i on, acc the dict built so far: a repeated key
\* takes the later value.  The values of this model's texts are integers.
RECURSIVE ParseMembers(_, _, _)
ParseMembers(toks, i, acc) ==
    IF i + 3 > Len(toks) THEN DecodeError
    ELSE IF ~(toks[i].t = "string" /\ IsPunct(toks[i + 1], ":")
              /\ toks[i + 2].t = "number")
    THEN DecodeError
    ELSE LET d == DictSet(acc, Str(toks[i].s), toks[i + 2].n)
         IN  IF IsPunct(toks[i + 3], "}")
             THEN IF i + 3 = Len(toks) THEN Decoded("object", d, 0)
                  ELSE DecodeError
             ELSE IF IsPunct(toks[i + 3], ",")
             THEN ParseMembers(toks, i + 4, d)
             ELSE DecodeError

\* the document: an object, or a number alone; anything else, or anything
\* after the document, is a JSONDecodeError
ParseDocument(toks) ==
    IF toks = <<>> THEN DecodeError
    ELSE IF toks[1].t = "number"
    THEN IF Len(toks) = 1 THEN Decoded("number", <<>>, toks[1].n)
         ELSE DecodeError
    ELSE IF IsPunct(toks[1], "{")
    THEN IF Len(toks) >= 2 /\ IsPunct(toks[2], "}")
         THEN IF Len(toks) = 2 THEN Decoded("object", <<>>, 0)
              ELSE DecodeError
         ELSE ParseMembers(toks, 2, <<>>)
    ELSE DecodeError

JsonLoad(text) == ParseDocument(Scan(text, 1))

----------------------------------------------------------------------------
(* Files *)

Paths == {"inventory.json"}

Missing == [exists |-> FALSE, text |-> <<>>]
File(text) == [exists |-> TRUE, text |-> text]

\* texts another program may leave at the path: the object of the format in
\* compact form, an object with a quantity below zero, a text cut short, and
\* a JSON document that is no object
ExtTexts ==
    { <<Punct("{"), Quoted("apple"), Punct(":"), Digit(1), Digit(0),
        Punct(","), Quoted("pear"), Punct(":"), Digit(3), Punct("}")>>,
      <<Punct("{"), Quoted("pear"), Punct(":"), Punct("-"), Digit(1),
        Punct("}")>>,
      <<Punct("{"), Quoted("apple"), Punct(":")>>,
      <<Digit(5)>> }

ExtFiles == {Missing} \cup {File(t) : t \in ExtTexts}

\* stock_data.update(loaded_data)
OverlayKeep(d, other) == DictUpdate(other, d)
Overlay(d, other) == DictUpdate(d, other)

\* the whole of load_data on the file at the path
LoadOutcome(d, file) ==
    IF ~file.exists
    THEN [stock |-> d, ret |-> RetDict, printed |-> "Warning: File not found"]
    ELSE LET r == JsonLoad(file.text)
         IN  IF ~r.ok
             THEN [stock |-> d, ret |-> RetDict,
                   printed |-> "Error: Invalid JSON format"]
             ELSE IF r.kind # "object"
             THEN [stock |-> d, ret |-> Raised("TypeError"), printed |-> ""]
             ELSE [stock |-> Overlay(d, r.obj), ret |-> RetDict,
                   printed |-> ""]

----------------------------------------------------------------------------
(* The state machine *)

Call(op) == [op |-> op, item |-> Str(""), qty |-> IntQty(0), sink |-> NoSink,
             th |-> <<>>, path |-> ""]

\* no save / fresh process / load sequence is under way
NoRt == [phase |-> "none", M |-> <<>>, path |-> ""]

\* the thresholds passed to check_low_items: none, or a number
Thresholds == {<<>>} \cup {<<n>> : n \in 0..(MaxQty + 1)}

\* the cap of the model: a call that stores a quantity above MaxQty which
\* was not already stored is not taken
Capped(old, new) ==
    \A i \in DOMAIN new :
        IF new[i].v <= MaxQty THEN TRUE
        ELSE DictGet(old, new[i].k, new[i].v + 1) = new[i].v

\* inventory.py:12, and no file at any path
Init ==
    /\ stock_data = <<>>
    /\ fs = [p \in Paths |-> Missing]
    /\ call = Call("import")
    /\ ret = NoValue
    /\ logs = <<>>
    /\ printed = ""
    /\ rt = NoRt

\* a call that changes the mapping ends a save / load sequence under way
RtAfter(new) == IF new = stock_data THEN rt ELSE NoRt

add_item(item, qty, sink) ==
    LET o == AddOutcome(stock_data, item, qty, sink)
    IN  /\ Capped(stock_data, o.stock)
        /\ stock_data' = o.stock
        /\ call' = [Call("add_item") EXCEPT !.item = item, !.qty = qty,
                                            !.sink = sink]
        /\ ret' = o.ret
        /\ logs' = o.logs
        /\ printed' = o.printed
        /\ rt' = RtAfter(o.stock)
        /\ UNCHANGED fs

remove_item(item, qty) ==
    LET o == RemoveOutcome(stock_data, item, qty)
    IN  /\ Capped(stock_data, o.stock)
        /\ stock_data' = o.stock
        /\ call' = [Call("remove_item") EXCEPT !.item = item, !.qty = qty]
        /\ ret' = o.ret
        /\ logs' = <<>>
        /\ printed' = o.printed
        /\ rt' = RtAfter(o.stock)
        /\ UNCHANGED fs

get_qty(item) ==
    /\ call' = [Call("get_qty") EXCEPT !.item = item]
    /\ ret' = RetInt(GetQty(stock_data, item))
    /\ logs' = <<>>
    /\ printed' = ""
    /\ UNCHANGED <<stock_data, fs, rt>>

check_low_items(th) ==
    /\ call' = [Call("check_low_items") EXCEPT !.th = th]
    /\ ret' = RetList(LowItems(stock_data, ThresholdOf(th)))
    /\ logs' = <<>>
    /\ printed' = ""
    /\ UNCHANGED <<stock_data, fs, rt>>

\* open(file, "w") succeeds and the text is written, or raises IOError and
\* the file is left as it was
save_data(path, opened) ==
    /\ call' = [Call("save_data") EXCEPT !.path = path]
    /\ IF opened
       THEN /\ fs' = [fs EXCEPT ![path] = File(JsonDump(stock_data))]
            /\ ret' = RetBool(TRUE)
            /\ printed' = ""
            /\ rt' = [phase |-> "saved", M |-> stock_data, path |-> path]
       ELSE /\ fs' = fs
            /\ ret' = RetBool(FALSE)
            /\ printed' = "Error: Unable to save data"
            /\ rt' = rt
    /\ logs' = <<>>
    /\ UNCHANGED stock_data

load_data(path) ==
    LET o == LoadOutcome(stock_data, fs[path])
    IN  /\ stock_data' = o.stock
        /\ call' = [Call("load_data") EXCEPT !.path = path]
        /\ ret' = o.ret
        /\ logs' = <<>>
        /\ printed' = o.printed
        /\ rt' = IF rt.phase = "fresh" /\ rt.path = path
                 THEN [rt EXCEPT !.phase = "loaded"]
                 ELSE NoRt
        /\ UNCHANGED fs

\* the process ends and a new one imports the module: the mapping is created
\* empty again, the files stay
process_start ==
    /\ stock_data' = <<>>
    /\ call' = Call("import")
    /\ ret' = NoValue
    /\ logs' = <<>>
    /\ printed' = ""
    /\ rt' = IF rt.phase = "saved" THEN [rt EXCEPT !.phase = "fresh"]
             ELSE NoRt
    /\ UNCHANGED fs

\* another program writes or deletes the file at the path
file_changed(path, file) ==
    /\ fs' = [fs EXCEPT ![path] = file]
    /\ call' = [Call("file_changed") EXCEPT !.path = path]
    /\ ret' = NoValue
    /\ logs' = <<>>
    /\ printed' = ""
    /\ rt' = NoRt
    /\ UNCHANGED stock_data

\* the calls on the mapping, with every argument value
Next ==
    \/ \E item \in Items, qty \in Qtys, sink \in Sinks :
           add_item(item, qty, sink)
    \/ \E item \in Items, qty \in Qtys : remove_item(item, qty)
    \/ \E item \in Items : get_qty(item)
    \/ \E th \in Thresholds : check_low_items(th)

Spec == Init /\ [][Next]_vars

\* the calls on files, the start of a new process, and the calls of add_item
\* and remove_item that build the mappings to save: accepted arguments, the
\* quantities they build kept to MaxSaved
SavedItems == {Str("apple"), Str("pear")}
SavedQtys == {IntQty(0), IntQty(1)}

NextFiles ==
    \/ \E item \in SavedItems, qty \in SavedQtys :
           /\ GetQty(stock_data, item) + qty.n <= MaxSaved
           /\ add_item(item, qty, NoSink)
    \/ \E item \in SavedItems : remove_item(item, IntQty(1))
    \/ \E path \in Paths, opened \in BOOLEAN : save_data(path, opened)
    \/ \E path \in Paths : load_data(path)
    \/ process_start
    \/ \E path \in Paths, file \in ExtFiles : file_changed(path, file)

SpecFiles == Init /\ [][NextFiles]_vars

----------------------------------------------------------------------------
(* Properties *)

\* the item names and quantities as the claims speak of them
ValidName(item) == item.type = "str" /\ item.s # ""
IntegerQty(qty) == qty.type \in {"int", "bool"}
AnyKey == Items \cup Keys(stock_data) \cup Keys(stock_data')

\* every item but `item` is present or absent as before, with its quantity
OthersKept(item) ==
    \A other \in AnyKey \ {item} :
        /\ Contains(stock_data', other) <=> Contains(stock_data, other)
        /\ GetQty(stock_data', other) = GetQty(stock_data, other)

\* C1: in every state reached from the empty mapping by calls of add_item and
\* remove_item, every key of stock_data has a quantity above zero.
C1_EveryKeyPositive ==
    \A i \in DOMAIN stock_data : stock_data[i].v > 0

\* C2: add_item with a non-empty text item and an integer qty >= 0 returns
\* True; afterwards get_qty(item) is what it was before plus qty (0 for an
\* absent item), and every other item has the quantity it had.
C2_AddIncrements ==
    [][(/\ call'.op = "add_item"
        /\ ValidName(call'.item)
        /\ IntegerQty(call'.qty)
        /\ call'.qty.n >= 0)
       => /\ ret' = RetBool(TRUE)
          /\ GetQty(stock_data', call'.item)
                 = GetQty(stock_data, call'.item) + call'.qty.n
          /\ OthersKept(call'.item)]_vars

\* an item that was present grew by a positive qty, beside another item
C2_Witness ==
    /\ call.op = "add_item"
    /\ ret = RetBool(TRUE)
    /\ call.qty.n > 0
    /\ GetQty(stock_data, call.item) > call.qty.n
    /\ Len(stock_data) = 2

\* C3: add_item with an empty or non-text item, or with a negative or
\* non-integer qty, returns False, leaves stock_data as it was and appends
\* nothing to the log list.
C3_AddRejects ==
    [][(/\ call'.op = "add_item"
        /\ \/ ~ValidName(call'.item)
           \/ ~IntegerQty(call'.qty)
           \/ (call'.qty.type = "int" /\ call'.qty.n < 0))
       => /\ ret' = RetBool(FALSE)
          /\ stock_data' = stock_data
          /\ logs' = call'.sink.list]_vars

\* a negative qty for a good name was rejected, with a log list that held a
\* record and a mapping that held items
C3_Witness ==
    /\ call.op = "add_item"
    /\ ValidName(call.item)
    /\ call.qty = IntQty(-1)
    /\ ret = RetBool(FALSE)
    /\ call.sink.given
    /\ Len(logs) = 1
    /\ stock_data # <<>>

\* C4: remove_item on an item that is no key of stock_data returns False and
\* leaves stock_data as it was, whatever qty is.
C4_RemoveAbsent ==
    [][(/\ call'.op = "remove_item"
        /\ ~Contains(stock_data, call'.item))
       => /\ ret' = RetBool(FALSE)
          /\ stock_data' = stock_data]_vars

\* an absent name was removed with a negative qty from a mapping with items
C4_Witness ==
    /\ call.op = "remove_item"
    /\ ValidName(call.item)
    /\ call.qty = IntQty(-1)
    /\ ret = RetBool(FALSE)
    /\ ~Contains(stock_data, call.item)
    /\ stock_data # <<>>

\* C5: remove_item on an item present with quantity q: when q - qty <= 0 the
\* key is deleted and get_qty(item) is 0; when q - qty > 0 the key stays and
\* get_qty(item) is q - qty; every other key keeps its quantity.
C5_RemoveSubtracts ==
    [][(/\ call'.op = "remove_item"
        /\ Contains(stock_data, call'.item)
        /\ IntegerQty(call'.qty))
       => LET item == call'.item
              left == GetQty(stock_data, item) - call'.qty.n
          IN  /\ left <= 0 => /\ ~Contains(stock_data', item)
                              /\ GetQty(stock_data', item) = 0
              /\ left > 0 => /\ Contains(stock_data', item)
                             /\ GetQty(stock_data', item) = left
              /\ OthersKept(item)]_vars

\* a removal of a positive qty deleted its key and left another item
C5_Witness ==
    /\ call.op = "remove_item"
    /\ ValidName(call.item)
    /\ call.qty.n > 0
    /\ ret = RetBool(TRUE)
    /\ ~Contains(stock_data, call.item)
    /\ stock_data # <<>>

\* C6: a successful save_data(path), then load_data(path) into the empty
\* mapping of a new process, with no change in between, gives a mapping with
\* the keys and quantities of the mapping that was saved.
C6_RoundTrip ==
    rt.phase = "loaded"
    => /\ Keys(stock_data) = Keys(rt.M)
       /\ \A k \in Keys(rt.M) : GetQty(stock_data, k) = GetQty(rt.M, k)

\* a mapping of two items that add_item built was saved and loaded
C6_Witness ==
    /\ rt.phase = "loaded"
    /\ call.op = "load_data"
    /\ Len(rt.M) = 2
    /\ \A i \in DOMAIN rt.M : rt.M[i].v \in 1..MaxSaved
    /\ rt.M[1].v # rt.M[2].v

\* C7: check_low_items(threshold) returns the names whose quantity is below
\* threshold, each once and no other, and does not change stock_data; with no
\* argument the threshold is 5.
C7_LowItems ==
    [][call'.op = "check_low_items"
       => LET t == IF call'.th = <<>> THEN 5 ELSE call'.th[1]
              l == ret'.l
          IN  /\ ret'.kind = "list"
              /\ {l[i] : i \in DOMAIN l}
                     = {k \in Keys(stock_data) : GetQty(stock_data, k) < t}
              /\ \A i, j \in DOMAIN l : i # j => l[i] # l[j]
              /\ stock_data' = stock_data]_vars

\* a call with no argument named one item and left out one with 5 or more
C7_Witness ==
    /\ call.op = "check_low_items"
    /\ call.th = <<>>
    /\ Len(ret.l) = 1
    /\ Len(stock_data) = 2
    /\ \E i \in DOMAIN stock_data : stock_data[i].v = 5

\* C8: load_data on a missing file or on malformed content leaves stock_data
\* as it was and returns; load_data raises no exception to its caller,
\* whatever the file holds.
C8_LoadNeverRaises ==
    [][call'.op = "load_data"
       => /\ ret'.kind # "raise"
          /\ (~fs[call'.path].exists \/ ~JsonLoad(fs[call'.path].text).ok)
                 => stock_data' = stock_data]_vars

\* C9: after a successful load of a file holding the mapping F into a store
\* holding M, every key of F has the quantity F gives it, every key of M that
\* is not in F keeps its quantity, and there is no other key.
C9_Overlay ==
    [][(/\ call'.op = "load_data"
        /\ fs[call'.path].exists
        /\ JsonLoad(fs[call'.path].text).ok
        /\ JsonLoad(fs[call'.path].text).kind = "object")
       => LET F == JsonLoad(fs[call'.path].text).obj
          IN  /\ \A k \in Keys(F) :
                     /\ Contains(stock_data', k)
                     /\ GetQty(stock_data', k) = GetQty(F, k)
              /\ \A k \in Keys(stock_data) \ Keys(F) :
                     /\ Contains(stock_data', k)
                     /\ GetQty(stock_data', k) = GetQty(stock_data, k)
              /\ Keys(stock_data') = Keys(F) \cup Keys(stock_data)]_vars

\* a file with one item was loaded into a mapping that held another
C9_Witness ==
    /\ call.op = "load_data"
    /\ ret = RetDict
    /\ printed = ""
    /\ LET F == JsonLoad(fs[call.path].text).obj
       IN  /\ F # <<>>
           /\ Keys(stock_data) \ Keys(F) # {}

\* C10: remove_item on a present item returns True for every integer qty; a
\* negative qty raises the stored quantity by its absolute value and the key
\* stays.
C10_RemoveUnsigned ==
    [][(/\ call'.op = "remove_item"
        /\ Contains(stock_data, call'.item)
        /\ IntegerQty(call'.qty))
       => /\ ret' = RetBool(TRUE)
          /\ call'.qty.n < 0
                 => /\ Contains(stock_data', call'.item)
                    /\ GetQty(stock_data', call'.item)
                           = GetQty(stock_data, call'.item) - call'.qty.n]_vars

\* a removal of a negative qty returned True and the item is there
C10_Witness ==
    /\ call.op = "remove_item"
    /\ call.qty = IntQty(-1)
    /\ ret = RetBool(TRUE)
    /\ GetQty(stock_data, call.item) >= 2

====
